---- MODULE Spec2Model ----
(***************************************************************************)
(* Request orchestration engine of the Azure OpenAI document processor:    *)
(*   RateLimiter.acquire            (PYTHON/azure_openai_service.py)       *)
(*   AzureOpenAIService.complete_chat with its tenacity retry decorator    *)
(*   AzureOpenAIService.extract_structured_data                            *)
(*   DocumentProcessor.batch_process_documents (Models/document_models.py) *)
(*                                                                         *)
(* One batch of NumDocs documents is processed by NumDocs asyncio tasks.   *)
(* Every action is one run of a task between two awaits that suspend it.   *)
(* Time is a discrete clock (seconds) advanced by Tick.                    *)
(***************************************************************************)
EXTENDS Integers, Sequences, FiniteSets, TLC

\* ---------------------------------------------------------------- bounds
NumDocs == 3            \* documents in the batch
MaxConcurrent == 2      \* max_concurrent passed to batch_process_documents
MaxRequests == 2        \* RateLimiter.max_requests (scaled down)
MaxTokens == 3          \* RateLimiter.max_tokens (scaled down)
WindowSeconds == 2      \* RateLimiter.window_seconds (scaled down)
MaxEstimate == 2        \* largest estimated_tokens of a document
MaxTime == 4            \* the clock stops here
MaxCalls == 10          \* record_request calls made on one collector
MaxSamples == 20        \* response times held by one APIMetrics
MaxResponseTime == 2    \* response_time of a call, in milliseconds: 1..MaxResponseTime
MaxVatDigits == 12      \* ASCII digits in a string given to validate_italian_vat
MaxVatOthers == 2       \* its other characters (separators, letters, other digits)
MaxBodyLen == 4         \* characters of the string value inside a JSON content

\* ------------------------------------------------------ program constants
StopAfterAttempt == 3   \* stop_after_attempt(3)
WaitMultiplier == 1     \* wait_exponential(multiplier=1, ...)
WaitMin == 2            \* wait_exponential(..., min=2, ...)
WaitMax == 10           \* wait_exponential(..., max=10)
ExpBase == 2            \* wait_exponential's exp_base (default)
PercentileNum == 95     \* int(len(sorted_times) * 0.95): 0.95 = 95 / 100
PercentileDen == 100
CostPer1kTokens == 3    \* cost_per_1k_tokens = 0.03 USD, in hundredths of a USD
TokensPerCostUnit == 1000   \* tokens_used / 1000
VatLength == 11         \* len(cleaned) != 11
TagLength == 4          \* clean_json[4:]

\* tokens_used of a successful call, as record_request is given it
TokensPerSuccess == 150

Docs == 1..NumDocs
Estimates == 1..MaxEstimate

\* retry_if_exception_type((TimeoutError, ConnectionError))
Retryable == {"TimeoutError", "ConnectionError"}
\* Exception classes the remote call can raise: the retryable ones and one
\* that is not (an authentication failure).
FailureKinds == Retryable \cup {"AuthenticationError"}
\* What the text of a successful completion can be once cleaned.
ResponseClasses == {"conforming", "not_json", "schema_violation"}

None == <<"None">>
NoOutcome == [tag |-> "none", type |-> "", msg |-> "", detail |-> "", value |-> None]

VARIABLES
    now,          \* datetime.now(), in seconds
    requests,     \* RateLimiter.requests: sequence of timestamps
    tokens_used,  \* RateLimiter.tokens_used: sequence of <<timestamp, tokens>>
    lock,         \* RateLimiter._lock: 0 when free, else the task holding it
    lockWaiters,  \* RateLimiter._lock._waiters, FIFO
    semValue,     \* semaphore._value
    semWaiters,   \* semaphore._waiters, FIFO
    pc,           \* where each task is suspended
    est,          \* estimated_tokens of each document's prompt
    attempt,      \* retry_state.attempt_number of each task's complete_chat
    lastFail,     \* retry_state.outcome: exception class of the last attempt, "none" for a result
    sleepFor,     \* duration of the asyncio.sleep the task is in
    wakeAt,       \* when that sleep ends
    invoked,      \* how many times extract_invoice_data was called per item
    response,     \* class of the completion text an item received
    outcome,      \* what extract_structured_data returned or raised, per item
    taskResult,   \* what process_one returned (or that it raised), per item
    batch,        \* "running", "returned" or "raised"
    batchResult,  \* the list batch_process_documents returned
    recorded,     \* how many entries acquire has appended for each item
    completed,    \* how many remote calls of each item have completed
    doneOrder,    \* the items whose process_one has returned, in the order they did
    metrics,      \* MetricsCollector.metrics, an APIMetrics
    calls,        \* how many record_request calls have returned
    summary,      \* what the latest get_summary read, until the next update
    p95,          \* the last p95_response_time read of the APIMetrics
    rawText,      \* a completion text handed to the response cleanup
    cleanText,    \* what the cleanup made of it
    vatInput,     \* a string handed to validate_italian_vat
    vatResult     \* what the validator returned or raised

vars == <<now, requests, tokens_used, lock, lockWaiters, semValue, semWaiters,
          pc, est, attempt, lastFail, sleepFor, wakeAt, invoked, response,
          outcome, taskResult, batch, batchResult, recorded, completed, doneOrder,
          metrics, calls, summary, p95, rawText, cleanText, vatInput, vatResult>>

limiterVars == <<requests, tokens_used, lock, lockWaiters>>
semVars == <<semValue, semWaiters>>
retryVars == <<attempt, lastFail>>
resultVars == <<response, outcome, taskResult, doneOrder>>
batchVars == <<batch, batchResult>>
metricsVars == <<metrics, calls, summary, p95>>
cleanupVars == <<rawText, cleanText>>
vatVars == <<vatInput, vatResult>>
\* What the batch run never touches.
otherVars == <<metricsVars, cleanupVars, vatVars>>

\* Everything the batch run reads or writes.
runVars == <<now, limiterVars, semVars, pc, est, retryVars, sleepFor, wakeAt,
             invoked, resultVars, batchVars, recorded, completed>>

\* ------------------------------------------------------------- helpers
Min(a, b) == IF a < b THEN a ELSE b
Max(a, b) == IF a > b THEN a ELSE b

RECURSIVE Pow(_, _)
Pow(b, e) == IF e = 0 THEN 1 ELSE b * Pow(b, e - 1)

RECURSIVE SumTokens(_)
\* sum(tokens for _, tokens in self.tokens_used)
SumTokens(toks) ==
    IF toks = <<>> THEN 0 ELSE Head(toks)[2] + SumTokens(Tail(toks))

\* ---------------------------------------------------------- RateLimiter
\* self.requests = [r for r in self.requests if r > cutoff]
PruneRequests(reqs, cutoff) == SelectSeq(reqs, LAMBDA r : r > cutoff)

\* A plausible slip: >= in one of the two comprehensions.
PruneTokensInclusive(toks, cutoff) == SelectSeq(toks, LAMBDA e : e[1] >= cutoff)

\* self.tokens_used = [(t, tokens) for t, tokens in self.tokens_used if t > cutoff]
PruneTokens(toks, cutoff) == SelectSeq(toks, LAMBDA e : e[1] > cutoff)

\* A plausible slip: a call that finds the window empty is let through, so
\* that no call waits on an empty window.
MustWaitUnlessWindowEmpty(reqs, toks, estimated_tokens) ==
    /\ reqs # <<>>
    /\ \/ Len(reqs) >= MaxRequests
       \/ SumTokens(toks) + estimated_tokens > MaxTokens

\* A plausible slip: the estimate of the new call is left out of the test.
MustWaitIgnoringEstimate(reqs, toks, estimated_tokens) ==
    \/ Len(reqs) >= MaxRequests
    \/ SumTokens(toks) > MaxTokens

\* current_requests >= self.max_requests or
\* current_tokens + estimated_tokens > self.max_tokens
MustWait(reqs, toks, estimated_tokens) ==
    \/ Len(reqs) >= MaxRequests
    \/ SumTokens(toks) + estimated_tokens > MaxTokens

\* (self.requests[0] - cutoff).total_seconds() if self.requests else 1
WaitTime(reqs, cutoff) == IF Len(reqs) > 0 THEN reqs[1] - cutoff ELSE 1

\* The body of `async with self._lock:` up to its first suspension, run by
\* task i, which has just taken the lock.  Either the call is admitted, the
\* usage recorded and the lock released on leaving the block, or the task
\* goes to sleep INSIDE the block, the lock still held.
CriticalSection(i) ==
    LET cutoff == now - WindowSeconds
        reqs == PruneRequests(requests, cutoff)
        toks == PruneTokens(tokens_used, cutoff)
    IN  IF MustWait(reqs, toks, est[i])
        THEN /\ requests' = reqs
             /\ tokens_used' = toks
             /\ lock' = i
             /\ pc' = [pc EXCEPT ![i] = "rl_sleep"]
             /\ sleepFor' = [sleepFor EXCEPT ![i] = WaitTime(reqs, cutoff)]
             /\ wakeAt' = [wakeAt EXCEPT ![i] = now + WaitTime(reqs, cutoff)]
             /\ UNCHANGED recorded
        ELSE /\ requests' = Append(reqs, now)
             /\ tokens_used' = Append(toks, <<now, est[i]>>)
             /\ lock' = 0
             /\ pc' = [pc EXCEPT ![i] = "remote"]
             /\ sleepFor' = [sleepFor EXCEPT ![i] = 0]
             /\ wakeAt' = [wakeAt EXCEPT ![i] = 0]
             /\ recorded' = [recorded EXCEPT ![i] = @ + 1]

\* A plausible slip: rate_limiter.acquire called once per invocation, outside
\* the retried body, so that a retry goes straight to the remote call.
EnterLockFirstAttemptOnly(i) ==
    IF attempt[i] = 0 \/ pc[i] = "rl_sleep"
    THEN IF lock = 0 /\ lockWaiters = <<>>
         THEN /\ CriticalSection(i)
              /\ UNCHANGED lockWaiters
         ELSE /\ lockWaiters' = Append(lockWaiters, i)
              /\ pc' = [pc EXCEPT ![i] = "lock_wait"]
              /\ sleepFor' = [sleepFor EXCEPT ![i] = 0]
              /\ wakeAt' = [wakeAt EXCEPT ![i] = 0]
              /\ UNCHANGED <<requests, tokens_used, lock, recorded>>
    ELSE /\ pc' = [pc EXCEPT ![i] = "remote"]
         /\ sleepFor' = [sleepFor EXCEPT ![i] = 0]
         /\ wakeAt' = [wakeAt EXCEPT ![i] = 0]
         /\ UNCHANGED <<requests, tokens_used, lock, lockWaiters, recorded>>

\* asyncio.Lock.acquire as called by `async with self._lock`: taken at once
\* when the lock is free and nobody waits, otherwise the caller queues.
EnterLock(i) ==
    IF lock = 0 /\ lockWaiters = <<>>
    THEN /\ CriticalSection(i)
         /\ UNCHANGED lockWaiters
    ELSE /\ lockWaiters' = Append(lockWaiters, i)
         /\ pc' = [pc EXCEPT ![i] = "lock_wait"]
         /\ sleepFor' = [sleepFor EXCEPT ![i] = 0]
         /\ wakeAt' = [wakeAt EXCEPT ![i] = 0]
         /\ UNCHANGED <<requests, tokens_used, lock, recorded>>

\* ------------------------------------------------- retry decorator (tenacity)
\* wait_exponential(multiplier=1, min=2, max=10) called with the number of
\* the attempt that has just failed:
\*   max(max(0, min), min(multiplier * exp_base ** (attempt_number - 1), max))
WaitExponential(attempt_number) ==
    Max(Max(0, WaitMin),
        Min(WaitMultiplier * Pow(ExpBase, attempt_number - 1), WaitMax))

\* A plausible slip: every exception class is retried.
RetryAgainAnyKind(kind, attempt_number) ==
    attempt_number < StopAfterAttempt

\* retry=retry_if_exception_type((TimeoutError, ConnectionError)) and
\* stop=stop_after_attempt(3): the failed attempt is followed by another one.
RetryAgain(kind, attempt_number) ==
    /\ kind \in Retryable
    /\ attempt_number < StopAfterAttempt

\* A plausible slip: whatever made the executor give up is wrapped the same way.
GiveUpAlwaysWrapped(kind) == "RetryError"

\* The class of the exception complete_chat raises when no attempt follows:
\* the decorator has no reraise=True, so exhausted retries raise
\* tenacity.RetryError; an exception the retry predicate rejects is re-raised
\* as it is (`raise` at the end of the except block).
GiveUpError(kind) == IF kind \in Retryable THEN "RetryError" ELSE kind

\* complete_chat raising to extract_structured_data, which calls it outside
\* its try block and so lets the exception through unchanged.
CompleteChatRaises(kind) ==
    [tag |-> "raise", type |-> GiveUpError(kind), msg |-> "",
     detail |-> kind, value |-> None]

\* ------------------------------------------------ extract_structured_data
\* json.loads / model_validate on the cleaned text of document i's
\* completion.  json.JSONDecodeError and pydantic's ValidationError are both
\* caught by `except (json.JSONDecodeError, ValueError)` and both re-raised as
\* ValueError(f"Impossibile parsare risposta come JSON: {e}").
ExtractStructuredData(i, c) ==
    IF c = "conforming"
    THEN [tag |-> "return", type |-> "InvoiceData", msg |-> "",
          detail |-> "", value |-> <<"InvoiceData", i>>]
    ELSE [tag |-> "raise", type |-> "ValueError",
          msg |-> "Impossibile parsare risposta come JSON",
          detail |-> IF c = "not_json"
                     THEN "Expecting value: line 1 column 1 (char 0)"
                     ELSE "1 validation error for InvoiceData",
          value |-> None]

\* ------------------------------------------------ batch_process_documents
\* A plausible slip: a semaphore that never refuses (one made per call of
\* process_one instead of one per batch).
SemaphoreNeverLocked == TRUE

\* not semaphore.locked(): `async with semaphore` goes through at once.
SemaphoreFree == semValue > 0 /\ semWaiters = <<>>

\* A plausible slip: process_one without its try/except.
ProcessOneNoExcept(i, o) ==
    [raised |-> o.tag = "raise", pair |-> <<i, o.value>>]

\* process_one's try/except around extract_invoice_data, whose outcome is o:
\* return (doc_id, data), or (doc_id, None) on any Exception.
ProcessOne(i, o) ==
    [raised |-> FALSE,
     pair |-> IF o.tag = "raise" THEN <<i, None>> ELSE <<i, o.value>>]

NotStarted == [raised |-> FALSE, pair |-> <<0, None>>]

\* A plausible slip: the results taken as the tasks complete
\* (asyncio.as_completed) instead of from gather.
GatherResultsAsCompleted == [k \in 1..Len(doneOrder) |-> taskResult[doneOrder[k]].pair]

\* results = await asyncio.gather(*tasks): the tasks' results in input order.
GatherResults == [i \in Docs |-> taskResult[i].pair]

\* successful = [(doc_id, data) for doc_id, data in results if data is not None]
Successful(results) == SelectSeq(results, LAMBDA r : r[2] # None)

\* ------------------------------------------------------------------ Init
\* APIMetrics(): every counter 0, no sample, no error counted.
\* The keys the errors dictionary is given; "" stands for error=None.
ErrorNames == {"TimeoutError"}
NoError == ""

\* APIMetrics(): response times in milliseconds, the cost in units of
\* 1/100000 USD, errors as a count per key (0: key absent).
NewMetrics ==
    [total_requests |-> 0, successful_requests |-> 0, failed_requests |-> 0,
     total_tokens |-> 0, total_cost_usd |-> 0, response_times |-> <<>>,
     errors |-> [k \in ErrorNames |-> 0]]

\* No get_summary result at hand.
NoSummary ==
    [read |-> FALSE, seen |-> NewMetrics, total_requests |-> 0,
     success_rate |-> 0, avg_response_time_ms |-> 0, p95_response_time_ms |-> 0,
     total_tokens |-> 0, estimated_cost_usd |-> 0,
     errors |-> [k \in ErrorNames |-> 0]]

\* p95_response_time not read.
NoP95 == [read |-> FALSE, value |-> 0]

\* No text handed to the cleanup; no cleaned text.
NoText == <<>>
NoClean == [done |-> FALSE, response |-> <<>>, wrapped |-> <<>>, plain |-> <<>>]

\* The fields of InvoiceData that validate_italian_vat is registered for.
VatFields == {"supplier_vat", "client_vat"}
\* Nothing validated; a validated value not validated again.
NoAgain == [tag |-> "none", value |-> <<>>]
NoVat == [tag |-> "none", value |-> <<>>, field |-> "", again |-> NoAgain]

\* A fresh MetricsCollector and APIMetrics.
MetricsVarsInit ==
    /\ metrics = NewMetrics
    /\ calls = 0
    /\ summary = NoSummary
    /\ p95 = NoP95

\* Nothing handed to the cleanup.
CleanupVarsInit ==
    /\ rawText = NoText
    /\ cleanText = NoClean

\* A fresh MetricsCollector; nothing handed to the cleanup or the validator.
OtherInit ==
    /\ MetricsVarsInit
    /\ CleanupVarsInit
    /\ vatInput = [field |-> "supplier_vat", text |-> <<>>]
    /\ vatResult = NoVat

\* The batch before it starts, for documents of estimates e.
BatchInit(e) ==
    /\ now = 0
    /\ requests = <<>>
    /\ tokens_used = <<>>
    /\ lock = 0
    /\ lockWaiters = <<>>
    /\ semValue = MaxConcurrent
    /\ semWaiters = <<>>
    /\ pc = [i \in Docs |-> "pending"]
    /\ est = e
    /\ attempt = [i \in Docs |-> 0]
    /\ lastFail = [i \in Docs |-> "none"]
    /\ sleepFor = [i \in Docs |-> 0]
    /\ wakeAt = [i \in Docs |-> 0]
    /\ invoked = [i \in Docs |-> 0]
    /\ response = [i \in Docs |-> "none"]
    /\ outcome = [i \in Docs |-> NoOutcome]
    /\ taskResult = [i \in Docs |-> NotStarted]
    /\ batch = "running"
    /\ batchResult = <<>>
    /\ recorded = [i \in Docs |-> 0]
    /\ completed = [i \in Docs |-> 0]
    /\ doneOrder = <<>>

Init ==
    /\ \E e \in [Docs -> Estimates] : BatchInit(e)
    /\ OtherInit

\* --------------------------------------------------------------- actions
\* The datetime.now() clock advances.  The event loop runs whatever is ready
\* before it waits: time passes only once every task has started and no
\* timer that is due remains to be served.
Tick ==
    /\ now < MaxTime
    /\ batch = "running"
    /\ \A i \in Docs : pc[i] \notin {"pending", "sem_woken"}
    /\ \A i \in Docs : pc[i] \in {"rl_sleep", "backoff"} => now < wakeAt[i]
    /\ now' = now + 1
    /\ UNCHANGED <<limiterVars, semVars, pc, est, retryVars, sleepFor, wakeAt,
                   invoked, resultVars, batchVars, recorded, completed,
                   otherVars>>

\* Task i starts process_one: `async with semaphore`.  With a permit free it
\* goes on, without suspending, into extract_invoice_data ->
\* extract_structured_data -> complete_chat (attempt 1) ->
\* rate_limiter.acquire.  The tasks gather() created start in input order.
StartItem(i) ==
    /\ batch = "running"
    /\ pc[i] = "pending"
    /\ \A j \in Docs : j < i => pc[j] # "pending"
    /\ IF SemaphoreFree
       THEN /\ semValue' = semValue - 1
            /\ UNCHANGED semWaiters
            /\ invoked' = [invoked EXCEPT ![i] = @ + 1]
            /\ attempt' = [attempt EXCEPT ![i] = 1]
            /\ EnterLock(i)
       ELSE /\ semWaiters' = Append(semWaiters, i)
            /\ pc' = [pc EXCEPT ![i] = "sem_wait"]
            /\ UNCHANGED <<semValue, invoked, attempt, limiterVars, sleepFor,
                           wakeAt, recorded>>
    /\ UNCHANGED <<now, est, lastFail, resultVars, batchVars, completed,
                   otherVars>>

\* A task the semaphore has woken runs on with the permit handed to it.
SemGranted(i) ==
    /\ pc[i] = "sem_woken"
    /\ invoked' = [invoked EXCEPT ![i] = @ + 1]
    /\ attempt' = [attempt EXCEPT ![i] = 1]
    /\ EnterLock(i)
    /\ UNCHANGED <<now, semVars, est, lastFail, resultVars, batchVars,
                   completed, otherVars>>

\* The event loop resumes a task suspended inside RateLimiter.acquire.
\* From the sleep of line 54 it makes the recursive call of line 55, which
\* enters `async with self._lock` again; from waiting for the lock it runs
\* the block once the lock is free and it is the first waiter.
ResumeInLimiter(i) ==
    /\ IF pc[i] = "rl_sleep"
       THEN /\ now >= wakeAt[i]
            /\ EnterLock(i)
       ELSE /\ pc[i] = "lock_wait"
            /\ lock = 0
            /\ lockWaiters # <<>>
            /\ Head(lockWaiters) = i
            /\ lockWaiters' = Tail(lockWaiters)
            /\ CriticalSection(i)
    /\ UNCHANGED <<now, semVars, est, retryVars, invoked, resultVars,
                   batchVars, completed, otherVars>>

\* A plausible slip: the permit released by hand on the success path only,
\* instead of by `async with semaphore`.
FinishKeepsPermitOnFailure(i, o) ==
    /\ outcome' = [outcome EXCEPT ![i] = o]
    /\ taskResult' = [taskResult EXCEPT ![i] = ProcessOne(i, o)]
    /\ doneOrder' = Append(doneOrder, i)
    /\ IF o.tag = "raise"
       THEN /\ pc' = [pc EXCEPT ![i] = "done"]
            /\ UNCHANGED <<semValue, semWaiters>>
       ELSE IF semWaiters # <<>>
       THEN /\ pc' = [pc EXCEPT ![i] = "done", ![Head(semWaiters)] = "sem_woken"]
            /\ semWaiters' = Tail(semWaiters)
            /\ UNCHANGED semValue
       ELSE /\ pc' = [pc EXCEPT ![i] = "done"]
            /\ semValue' = semValue + 1
            /\ UNCHANGED semWaiters

\* process_one returns for item i with extraction outcome o: the result is
\* stored for gather() and leaving `async with semaphore` releases the
\* permit, which is handed to the first waiter if there is one.
Finish(i, o) ==
    /\ outcome' = [outcome EXCEPT ![i] = o]
    /\ taskResult' = [taskResult EXCEPT ![i] = ProcessOne(i, o)]
    /\ doneOrder' = Append(doneOrder, i)
    /\ IF semWaiters # <<>>
       THEN /\ pc' = [pc EXCEPT ![i] = "done", ![Head(semWaiters)] = "sem_woken"]
            /\ semWaiters' = Tail(semWaiters)
            /\ UNCHANGED semValue
       ELSE /\ pc' = [pc EXCEPT ![i] = "done"]
            /\ semValue' = semValue + 1
            /\ UNCHANGED semWaiters

\* The remote call of item i returns a completion whose text is of class c;
\* extract_structured_data cleans, parses and validates it.  A remote call
\* completes in a later iteration of the event loop than the one that
\* starts the tasks.
RemoteSucceeds(i, c) ==
    /\ pc[i] = "remote"
    /\ \A j \in Docs : pc[j] # "pending"
    /\ response' = [response EXCEPT ![i] = c]
    /\ lastFail' = [lastFail EXCEPT ![i] = "none"]
    /\ completed' = [completed EXCEPT ![i] = @ + 1]
    /\ Finish(i, ExtractStructuredData(i, c))
    /\ UNCHANGED <<now, limiterVars, est, attempt, sleepFor, wakeAt, invoked,
                   batchVars, recorded, otherVars>>

\* The remote call of item i raises an exception of class k; the retry
\* decorator either sleeps before another attempt or gives up.
RemoteFails(i, k) ==
    /\ pc[i] = "remote"
    /\ \A j \in Docs : pc[j] # "pending"
    /\ lastFail' = [lastFail EXCEPT ![i] = k]
    /\ completed' = [completed EXCEPT ![i] = @ + 1]
    /\ IF RetryAgain(k, attempt[i])
       THEN /\ pc' = [pc EXCEPT ![i] = "backoff"]
            /\ sleepFor' = [sleepFor EXCEPT ![i] = WaitExponential(attempt[i])]
            /\ wakeAt' = [wakeAt EXCEPT ![i] = now + WaitExponential(attempt[i])]
            /\ UNCHANGED <<semVars, outcome, taskResult, doneOrder>>
       ELSE /\ Finish(i, CompleteChatRaises(k))
            /\ UNCHANGED <<sleepFor, wakeAt>>
    /\ UNCHANGED <<now, limiterVars, est, attempt, invoked, response, batchVars,
                   recorded, otherVars>>

\* The backoff sleep is over: the next attempt of complete_chat starts with
\* rate_limiter.acquire.
BackoffDone(i) ==
    /\ pc[i] = "backoff"
    /\ now >= wakeAt[i]
    /\ attempt' = [attempt EXCEPT ![i] = @ + 1]
    /\ EnterLock(i)
    /\ UNCHANGED <<now, semVars, est, lastFail, invoked, resultVars, batchVars,
                   completed, otherVars>>

\* asyncio.gather completes: with every task done the successful pairs are
\* returned; an exception escaping a task is raised out of the batch call.
Gather ==
    /\ batch = "running"
    /\ \/ \A i \in Docs : pc[i] = "done"
       \/ \E i \in Docs : taskResult[i].raised
    /\ IF \E i \in Docs : taskResult[i].raised
       THEN /\ batch' = "raised"
            /\ batchResult' = <<>>
       ELSE /\ batch' = "returned"
            /\ batchResult' = Successful(GatherResults)
    /\ UNCHANGED <<now, limiterVars, semVars, pc, est, retryVars, sleepFor,
                   wakeAt, invoked, resultVars, recorded, completed, otherVars>>

Next ==
    \/ Tick
    \/ \E i \in Docs : StartItem(i)
    \/ \E i \in Docs : SemGranted(i)
    \/ \E i \in Docs : ResumeInLimiter(i)
    \/ \E i \in Docs : \E c \in ResponseClasses : RemoteSucceeds(i, c)
    \/ \E i \in Docs : \E k \in FailureKinds : RemoteFails(i, k)
    \/ \E i \in Docs : BackoffDone(i)
    \/ Gather

Spec == Init /\ [][Next]_vars

\* A batch in which documents can have a prompt estimated above max_tokens.
OversizeEstimates == {1, MaxTokens + 1}

OversizeInit ==
    /\ \E e \in [Docs -> OversizeEstimates] : BatchInit(e)
    /\ OtherInit

OversizeSpec == OversizeInit /\ [][Next]_vars

\* The event loop runs every task that can run, and time passes.
FairSpec ==
    /\ Spec
    /\ WF_vars(Tick)
    /\ WF_vars(Gather)
    /\ \A i \in Docs :
        /\ WF_vars(StartItem(i))
        /\ WF_vars(SemGranted(i))
        /\ WF_vars(ResumeInLimiter(i))
        /\ WF_vars(BackoffDone(i))
        /\ WF_vars(\E c \in ResponseClasses : RemoteSucceeds(i, c))

TypeOK ==
    /\ now \in 0..MaxTime
    /\ lock \in 0..NumDocs
    /\ semValue \in 0..MaxConcurrent
    /\ semValue + Cardinality({i \in Docs : pc[i] \in {"sem_woken", "lock_wait", "rl_sleep", "remote", "backoff"}}) = MaxConcurrent
    /\ pc \in [Docs -> {"pending", "sem_wait", "sem_woken", "lock_wait",
                        "rl_sleep", "remote", "backoff", "done"}]
    /\ attempt \in [Docs -> 0..StopAfterAttempt]
    /\ batch \in {"running", "returned", "raised"}

\* ================================================================ claims
\* An entry is non-expired when its timestamp is later than now - window.
NonExpiredRequests == SelectSeq(requests, LAMBDA r : r > now - WindowSeconds)
NonExpiredTokens == SelectSeq(tokens_used, LAMBDA e : e[1] > now - WindowSeconds)

\* The items inside extract_invoice_data.
InPipeline == {i \in Docs : pc[i] \in {"lock_wait", "rl_sleep", "remote", "backoff"}}

\* complete_chat of item i gave up and item i ended on that failure.
GaveUp(i) == pc[i] = "done" /\ lastFail[i] # "none"

\* C1: in every reachable state the tokens of the non-expired entries of
\* tokens_used sum to at most max_tokens and the non-expired entries of
\* requests number at most max_requests.
C1_WindowWithinBudget ==
    /\ SumTokens(NonExpiredTokens) <= MaxTokens
    /\ Len(NonExpiredRequests) <= MaxRequests

\* C1 witness: both dimensions of the window are full, two tasks are inside
\* acquire's callers at once and one call has been refused.
C1_Witness ==
    /\ SumTokens(NonExpiredTokens) = MaxTokens
    /\ Len(NonExpiredRequests) = MaxRequests
    /\ \E i \in Docs : pc[i] = "rl_sleep"
    /\ \E j \in Docs : pc[j] = "remote"

\* C2: a call of acquire that finds the budget exhausted and waits is
\* eventually admitted and returns (its estimate never exceeds max_tokens
\* here, and its sleep ends while the clock still runs).
C2_BlockedCallEventuallyAdmitted ==
    \A i \in Docs :
        (pc[i] = "rl_sleep" /\ wakeAt[i] <= MaxTime)
            ~> (pc[i] \notin {"rl_sleep", "lock_wait"})

\* C3: no task is suspended in the rate limiter's sleep while it holds the
\* rate limiter's lock.
C3_NoSleepHoldingLock ==
    \A i \in Docs : pc[i] = "rl_sleep" => lock # i

\* C4: the list batch_process_documents returns has exactly one entry per
\* input item: as long as the input, every identifier present once.
C4_OneEntryPerItem ==
    batch = "returned" =>
        /\ Len(batchResult) = NumDocs
        /\ \A i \in Docs :
            Cardinality({n \in 1..Len(batchResult) : batchResult[n][1] = i}) = 1

\* C5: at most max_concurrent items are inside extract_invoice_data.
C5_InFlightBounded == Cardinality(InPipeline) <= MaxConcurrent

\* C5 witness: max_concurrent items are in their pipeline while another item
\* waits for a permit.
C5_Witness ==
    /\ Cardinality(InPipeline) = MaxConcurrent
    /\ \E i \in Docs : pc[i] = "sem_wait"

\* C6: a failing item never makes the batch call raise and never cancels,
\* skips or changes another item: every item's pipeline is invoked at most
\* once, exactly once by the time the batch returns, and what the batch
\* reports for an item is that item's own extraction result (its own value
\* if its extraction returned one, and no other item's).
C6_FailureIsolated ==
    /\ batch # "raised"
    /\ \A i \in Docs : invoked[i] <= 1
    /\ batch = "returned" =>
        \A i \in Docs :
            /\ invoked[i] = 1
            /\ pc[i] = "done"
            /\ \A n \in 1..Len(batchResult) :
                batchResult[n][1] = i =>
                    /\ outcome[i].tag = "return"
                    /\ batchResult[n][2] = outcome[i].value
            /\ outcome[i].tag = "return" =>
                Cardinality({n \in 1..Len(batchResult) : batchResult[n][1] = i}) = 1

\* C6 witness: the batch has returned, one item failed and another item,
\* which finished after nothing or after it, is reported with its own value.
C6_Witness ==
    /\ batch = "returned"
    /\ \E i, j \in Docs :
        /\ outcome[i].tag = "raise"
        /\ outcome[j].tag = "return"
        /\ \E n \in 1..Len(batchResult) : batchResult[n] = <<j, outcome[j].value>>

\* C7: an attempt is followed by another one if and only if it failed with
\* a retryable exception class and its number is below 3; a successful
\* attempt and a non-retryable failure end the invocation at that attempt;
\* the attempt counter starts at 1, grows by one per retry and never
\* reaches 4.
C7_RetryIffRetryableAndAttemptsRemain ==
    [][\A i \in Docs :
        /\ (pc[i] = "remote" /\ pc'[i] # "remote") =>
            /\ pc'[i] \in {"backoff", "done"}
            /\ pc'[i] = "backoff" <=>
                (lastFail'[i] \in {"TimeoutError", "ConnectionError"} /\ attempt[i] < 3)
            /\ attempt'[i] = attempt[i]
        /\ attempt'[i] # attempt[i] =>
            /\ attempt'[i] = attempt[i] + 1
            /\ attempt[i] = 0 \/ pc[i] = "backoff"
        /\ attempt[i] = 0 <=> pc[i] \in {"pending", "sem_wait", "sem_woken"}
        /\ attempt'[i] <= 3
      ]_vars

\* C7 witness: one invocation has made its third attempt and given up on a
\* retryable failure, another has ended at its first attempt on a failure
\* that is not retryable.
C7_Witness ==
    \E i, j \in Docs :
        /\ GaveUp(i) /\ attempt[i] = 3 /\ lastFail[i] = "TimeoutError"
        /\ GaveUp(j) /\ attempt[j] = 1 /\ lastFail[j] = "AuthenticationError"

\* C8: the delay waited after failed attempt n is min(2 * 2^(n-1), 10):
\* 2 before retry 2 and 4 before retry 3, never more than 10.
C8_BackoffDelays ==
    \A i \in Docs :
        pc[i] = "backoff" =>
            /\ sleepFor[i] = Min(2 * Pow(2, attempt[i] - 1), 10)
            /\ sleepFor[i] <= 10

\* C9: when complete_chat gives up, a transient failure (retries exhausted
\* on a retryable class) surfaces from extract_structured_data as another
\* error kind than a fatal failure (a class that is not retryable).
C9_TransientAndFatalDistinct ==
    \A i, j \in Docs :
        (/\ GaveUp(i) /\ lastFail[i] \in Retryable
         /\ GaveUp(j) /\ lastFail[j] \notin Retryable)
            => /\ outcome[i].tag = "raise"
               /\ outcome[j].tag = "raise"
               /\ outcome[i].type # outcome[j].type

\* C9 witness: in one batch one extraction ended on exhausted retries and
\* another on a non-retryable failure.
C9_Witness ==
    \E i, j \in Docs :
        /\ GaveUp(i) /\ lastFail[i] \in Retryable /\ attempt[i] = 3
        /\ GaveUp(j) /\ lastFail[j] \notin Retryable

\* C10: a response that does not parse and a response that parses but
\* violates the schema yield failures of two kinds the caller can tell
\* apart, and a conforming response yields the validated value.
C10_ParseAndSchemaFailuresDistinct ==
    \A i, j \in Docs :
        /\ response[i] = "conforming" => outcome[i].tag = "return"
        /\ (response[i] = "not_json" /\ response[j] = "schema_violation") =>
            /\ outcome[i].tag = "raise"
            /\ outcome[j].tag = "raise"
            /\ <<outcome[i].type, outcome[i].msg>> # <<outcome[j].type, outcome[j].msg>>

\* ------------------------------------------------------- monitoring.py
\* sorted(): insertion into an ascending sequence, one element at a time.
RECURSIVE InsertSorted(_, _)
InsertSorted(x, s) ==
    IF s = <<>> THEN <<x>>
    ELSE IF x <= Head(s) THEN <<x>> \o s
    ELSE <<Head(s)>> \o InsertSorted(x, Tail(s))

RECURSIVE Sorted(_)
Sorted(s) == IF s = <<>> THEN <<>> ELSE InsertSorted(Head(s), Sorted(Tail(s)))

RECURSIVE SumSeq(_)
SumSeq(s) == IF s = <<>> THEN 0 ELSE Head(s) + SumSeq(Tail(s))

\* Rounding of a / b (a >= 0, b > 0) to an integer as the format
\* specifications .0f, .2f and .2% do: to nearest, ties to even.
RoundHalfEven(a, b) ==
    LET q == a \div b
        r == a % b
    IN  IF 2 * r < b THEN q
        ELSE IF 2 * r > b THEN q + 1
        ELSE IF q % 2 = 0 THEN q ELSE q + 1

\* The value of sorted_times[index] when index is past the end: IndexError.
IndexError == -1

\* index = int(len(sorted_times) * 0.95): the product truncated.
P95Index(n) == (n * PercentileNum) \div PercentileDen

\* APIMetrics.p95_response_time
P95ResponseTime(times) ==
    IF times = <<>> THEN 0
    ELSE LET sorted_times == Sorted(times)
             index == P95Index(Len(sorted_times))
         IN  IF index < Len(sorted_times) THEN sorted_times[index + 1] ELSE IndexError

\* APIMetrics.success_rate, as the fraction <<numerator, denominator>>.
SuccessRate(m) ==
    IF m.total_requests = 0 THEN <<0, 1>>
    ELSE <<m.successful_requests, m.total_requests>>

\* APIMetrics.avg_response_time, as a fraction.
AvgResponseTime(m) ==
    IF m.response_times = <<>> THEN <<0, 1>>
    ELSE <<SumSeq(m.response_times), Len(m.response_times)>>

\* A plausible slip: the failure branch counts the error but not the failure.
ApplyRecordFailureNotCounted(m, success, tokens, response_time, error) ==
    [m EXCEPT
        !.total_requests = @ + 1,
        !.successful_requests = IF success THEN @ + 1 ELSE @,
        !.errors = IF ~success /\ error # NoError THEN [@ EXCEPT ![error] = @ + 1] ELSE @,
        !.total_tokens = @ + tokens,
        !.response_times = Append(@, response_time),
        !.total_cost_usd = @ + tokens * CostPer1kTokens]

\* A plausible slip: an await after the counters, so that the rest of the
\* update is not yet made when other code runs.
ApplyRecordCountersOnly(m, success, tokens, response_time, error) ==
    [m EXCEPT
        !.total_requests = @ + 1,
        !.successful_requests = IF success THEN @ + 1 ELSE @,
        !.failed_requests = IF success THEN @ ELSE @ + 1]

\* The body of `async with self._lock` in record_request. tokens / 1000 * 0.03
\* USD is tokens * 3 in units of 1/100000 USD.
ApplyRecord(m, success, tokens, response_time, error) ==
    [m EXCEPT
        !.total_requests = @ + 1,
        !.successful_requests = IF success THEN @ + 1 ELSE @,
        !.failed_requests = IF success THEN @ ELSE @ + 1,
        !.errors = IF ~success /\ error # NoError THEN [@ EXCEPT ![error] = @ + 1] ELSE @,
        !.total_tokens = @ + tokens,
        !.response_times = Append(@, response_time),
        !.total_cost_usd = @ + tokens * CostPer1kTokens]

\* MetricsCollector.get_summary applied to the metrics m.
Summarise(m) ==
    [read |-> TRUE,
     seen |-> m,
     total_requests |-> m.total_requests,
     success_rate |-> RoundHalfEven(10000 * SuccessRate(m)[1], SuccessRate(m)[2]),
     avg_response_time_ms |-> RoundHalfEven(AvgResponseTime(m)[1], AvgResponseTime(m)[2]),
     p95_response_time_ms |-> P95ResponseTime(m.response_times),
     total_tokens |-> m.total_tokens,
     estimated_cost_usd |-> RoundHalfEven(m.total_cost_usd, TokensPerCostUnit),
     errors |-> m.errors]

\* One call of record_request. The lock is free at every call (its holder
\* never awaits inside the block), so `async with` takes it without
\* suspending and the whole call is one step of the event loop.
\* Inputs: a successful call used TokensPerSuccess tokens, a failed one
\* none; response times arrive in non-increasing order.
RecordRequest(success, tokens, response_time, error) ==
    /\ calls < MaxCalls
    /\ IF metrics.response_times = <<>> THEN TRUE
       ELSE response_time <= metrics.response_times[Len(metrics.response_times)]
    /\ metrics' = ApplyRecord(metrics, success, tokens, response_time, error)
    /\ calls' = calls + 1
    /\ summary' = NoSummary
    /\ UNCHANGED <<p95, runVars, cleanupVars, vatVars>>

\* One call of get_summary: synchronous, it reads every field in one step.
GetSummary ==
    /\ ~summary.read
    /\ summary' = Summarise(metrics)
    /\ UNCHANGED <<metrics, calls, p95, runVars, cleanupVars, vatVars>>

MetricsInit ==
    /\ BatchInit([i \in Docs |-> 1])
    /\ OtherInit

MetricsNext ==
    \/ \E success \in BOOLEAN, response_time \in 1..MaxResponseTime, error \in ErrorNames \cup {NoError} :
            RecordRequest(success, IF success THEN TokensPerSuccess ELSE 0, response_time, error)
    \/ GetSummary

MetricsSpec == MetricsInit /\ [][MetricsNext]_vars

\* p95_response_time as a function of the samples: an APIMetrics is given
\* one more response time (in non-increasing order, so that sorted() has
\* work to do), or its p95_response_time is read.
AddSample(response_time) ==
    /\ Len(metrics.response_times) < MaxSamples
    /\ IF metrics.response_times = <<>> THEN TRUE
       ELSE response_time <= metrics.response_times[Len(metrics.response_times)]
    /\ metrics' = [metrics EXCEPT !.response_times = Append(@, response_time)]
    /\ p95' = NoP95
    /\ UNCHANGED <<calls, summary, runVars, cleanupVars, vatVars>>

ReadP95 ==
    /\ ~p95.read
    /\ p95' = [read |-> TRUE, value |-> P95ResponseTime(metrics.response_times)]
    /\ UNCHANGED <<metrics, calls, summary, runVars, cleanupVars, vatVars>>

P95Next ==
    \/ \E response_time \in 1..MaxResponseTime : AddSample(response_time)
    \/ ReadP95

P95Spec == MetricsInit /\ [][P95Next]_vars

\* -------------------------------- InvoiceData.validate_italian_vat
\* Strings are sequences of one-character strings.
AsciiDigits == {"0", "1", "2", "3", "4", "5", "6", "7", "8", "9"}
\* A character str.isdigit accepts that is not 0-9: ARABIC-INDIC DIGIT THREE.
OtherDigits == {"u0663"}
\* The characters a VAT string is made of besides the ASCII digits.
VatOthers == {" ", ".", "A"} \cup OtherDigits

\* "123 456 789.01", the sample of the specification
VatExample == <<"1", "2", "3", " ", "4", "5", "6", " ", "7", "8", "9", ".", "0", "1">>

\* c.isdigit() for one character
IsDigit(c) == c \in AsciiDigits \cup OtherDigits

\* s.isdigit(): every character is a digit and there is at least one
StrIsDigit(s) == s # <<>> /\ \A k \in 1..Len(s) : IsDigit(s[k])

\* s.replace(c, "")
Remove(s, c) == SelectSeq(s, LAMBDA x : x # c)

\* A plausible slip: only the spaces are removed.
ValidateSpacesOnly(field, v) ==
    LET cleaned == Remove(v, " ")
    IN  IF ~StrIsDigit(cleaned) \/ Len(cleaned) # VatLength
        THEN [tag |-> "ValidationError", value |-> v, field |-> field]
        ELSE [tag |-> "ok", value |-> cleaned, field |-> field]

\* A plausible slip: the length of v is tested, not that of cleaned.
ValidateLengthOfInput(field, v) ==
    LET cleaned == Remove(Remove(v, " "), ".")
    IN  IF ~StrIsDigit(cleaned) \/ Len(v) # VatLength
        THEN [tag |-> "ValidationError", value |-> v, field |-> field]
        ELSE [tag |-> "ok", value |-> cleaned, field |-> field]

\* validate_italian_vat as pydantic runs it for `field`: the cleaned value
\* the field is set to, or the ValidationError pydantic raises for the
\* ValueError, which carries the field's name and the message with v.
ValidateItalianVat(field, v) ==
    LET cleaned == Remove(Remove(v, " "), ".")
    IN  IF ~StrIsDigit(cleaned) \/ Len(cleaned) # VatLength
        THEN [tag |-> "ValidationError", value |-> v, field |-> field]
        ELSE [tag |-> "ok", value |-> cleaned, field |-> field]

DigitCount(s) == Len(SelectSeq(s, LAMBDA x : x \in AsciiDigits))

\* The ASCII digit written after n others: 1, 2, ..., 9, 0, 1, ... as in the sample.
NextDigit(n) == CHOOSE d \in AsciiDigits : d = <<"1", "2", "3", "4", "5", "6", "7", "8", "9", "0">>[(n % 10) + 1]

\* The string under test grows by one character.
AppendVatChar(c) ==
    /\ vatResult = NoVat
    /\ IF c \in AsciiDigits
       THEN DigitCount(vatInput.text) < MaxVatDigits /\ c = NextDigit(DigitCount(vatInput.text))
       ELSE Len(vatInput.text) - DigitCount(vatInput.text) < MaxVatOthers
    /\ vatInput' = [vatInput EXCEPT !.text = Append(@, c)]
    /\ UNCHANGED <<vatResult, runVars, metricsVars, cleanupVars>>

\* InvoiceData is validated with the string in the field.
ValidateVat ==
    /\ vatResult = NoVat
    /\ vatResult' =
            LET r == ValidateItalianVat(vatInput.field, vatInput.text)
            IN  [tag |-> r.tag, value |-> r.value, field |-> r.field, again |-> NoAgain]
    /\ UNCHANGED <<vatInput, runVars, metricsVars, cleanupVars>>

\* The accepted value is validated again in the same field.
RevalidateVat ==
    /\ vatResult.tag = "ok"
    /\ vatResult.again = NoAgain
    /\ vatResult' = [vatResult EXCEPT !.again =
            LET r == ValidateItalianVat(vatInput.field, vatResult.value)
            IN  [tag |-> r.tag, value |-> r.value]]
    /\ UNCHANGED <<vatInput, runVars, metricsVars, cleanupVars>>

VatInit ==
    /\ BatchInit([i \in Docs |-> 1])
    /\ MetricsVarsInit
    /\ CleanupVarsInit
    /\ \E f \in VatFields, t \in {<<>>, VatExample} : vatInput = [field |-> f, text |-> t]
    /\ vatResult = NoVat

VatNext ==
    \/ \E c \in AsciiDigits \cup VatOthers : AppendVatChar(c)
    \/ ValidateVat
    \/ RevalidateVat

VatSpec == VatInit /\ [][VatNext]_vars

\* ------------------------------ extract_structured_data: response cleanup
\* The character U+0060 (grave accent), which a string of this language cannot hold.
BackTick == "u0060"
Fence == <<BackTick, BackTick, BackTick>>
JsonTag == <<"j", "s", "o", "n">>
\* Language tags a completion opens its block with.
Tags == {JsonTag, <<"J", "S", "O", "N">>, <<"j", "s", "o", "n", "c">>}
Whitespace == {" ", "\n"}
\* What the string value of the JSON content is made of.
BodyChars == {BackTick, "x"}

\* The JSON content {"k":"<body>"}
Content(body) == <<"{", "\"", "k", "\"", ":", "\"">> \o body \o <<"\"", "}">>

\* The content in a fenced block: fence, tag, newline, content, newline,
\* fence, with a blank before and a newline after when asked for.
Wrap(c, tag, lead, trail) ==
    (IF lead THEN <<" ">> ELSE <<>>) \o Fence \o tag \o <<"\n">> \o c \o <<"\n">>
        \o Fence \o (IF trail THEN <<"\n">> ELSE <<>>)

RECURSIVE LStrip(_)
LStrip(s) == IF s # <<>> /\ Head(s) \in Whitespace THEN LStrip(Tail(s)) ELSE s

RECURSIVE RStrip(_)
RStrip(s) ==
    IF s # <<>> /\ s[Len(s)] \in Whitespace THEN RStrip(SubSeq(s, 1, Len(s) - 1)) ELSE s

\* s.strip()
Strip(s) == RStrip(LStrip(s))

\* s.startswith(prefix)
StartsWith(s, prefix) ==
    Len(s) >= Len(prefix) /\ SubSeq(s, 1, Len(prefix)) = prefix

\* s.find(fence) + 1: where the first fence of s starts, 0 when there is none
FirstFence(s) ==
    LET at == {k \in 1..Len(s) : StartsWith(SubSeq(s, k, Len(s)), Fence)}
    IN  IF at = {} THEN 0 ELSE CHOOSE k \in at : \A j \in at : k <= j

\* s.split(fence)[1] for an s that holds a fence: what lies between the
\* first fence and the next one, or the end of s.
SplitSecond(s) ==
    LET rest == SubSeq(s, FirstFence(s) + Len(Fence), Len(s))
        next == FirstFence(rest)
    IN  IF next = 0 THEN rest ELSE SubSeq(rest, 1, next - 1)

\* The cleanup of extract_structured_data.
CleanJson(json_response) ==
    LET stripped == Strip(json_response)
        unfenced ==
            IF StartsWith(stripped, Fence)
            THEN LET piece == SplitSecond(stripped)
                 IN  IF StartsWith(piece, JsonTag)
                     THEN SubSeq(piece, TagLength + 1, Len(piece))
                     ELSE piece
            ELSE stripped
    IN  Strip(unfenced)

\* The string value of the content grows by one character.
AppendBodyChar(c) ==
    /\ ~cleanText.done
    /\ Len(rawText) < MaxBodyLen
    /\ rawText' = Append(rawText, c)
    /\ UNCHANGED <<cleanText, runVars, metricsVars, vatVars>>

\* The cleanup is given the content in a fenced block, and the content alone.
CleanBoth(tag, lead, trail) ==
    /\ ~cleanText.done
    /\ cleanText' = [done |-> TRUE,
                     response |-> Wrap(Content(rawText), tag, lead, trail),
                     wrapped |-> CleanJson(Wrap(Content(rawText), tag, lead, trail)),
                     plain |-> CleanJson(Content(rawText))]
    /\ UNCHANGED <<rawText, runVars, metricsVars, vatVars>>

CleanupInit ==
    /\ BatchInit([i \in Docs |-> 1])
    /\ OtherInit

CleanupNext ==
    \/ \E c \in BodyChars : AppendBodyChar(c)
    \/ \E tag \in Tags, lead \in BOOLEAN, trail \in BOOLEAN : CleanBoth(tag, lead, trail)

CleanupSpec == CleanupInit /\ [][CleanupNext]_vars

\* ------------------------------------------------------------ C17 .. C20
RECURSIVE SumUpTo(_, _)
SumUpTo(f, n) == IF n = 0 THEN 0 ELSE f[n] + SumUpTo(f, n - 1)

\* The remote calls item i has issued: the completed ones and the one in flight.
Issued(i) == completed[i] + (IF pc[i] = "remote" THEN 1 ELSE 0)

\* C17: every attempt of complete_chat passes through acquire before its
\* remote call: an item has issued exactly as many remote calls as acquire
\* has admitted (recorded) for it, an attempt still inside acquire has issued
\* none, and an invocation that has made k attempts has recorded k entries.
C17_EveryAttemptAdmittedFirst ==
    \A i \in Docs :
        /\ Issued(i) = recorded[i]
        /\ pc[i] \in {"remote", "backoff", "done"} => recorded[i] = attempt[i]
        /\ pc[i] \in {"lock_wait", "rl_sleep"} => recorded[i] = attempt[i] - 1

\* C17 witness: an invocation that made three attempts, all admitted.
C17_Witness ==
    \E i \in Docs : pc[i] = "done" /\ attempt[i] = 3 /\ recorded[i] = 3 /\ completed[i] = 3

\* The estimate e fits the window as it is now.
Fits(e) ==
    ~MustWait(PruneRequests(requests, now - WindowSeconds),
              PruneTokens(tokens_used, now - WindowSeconds), e)

\* C18: a caller that arrives while an earlier caller waits for room, and
\* whose own estimate fits, is admitted ahead of it: no caller whose estimate
\* fits is kept out of acquire by a caller that is waiting.
C18_LaterFittingCallerAdmitted ==
    \A a, b \in Docs :
        (a # b /\ pc[a] = "rl_sleep" /\ pc[b] = "lock_wait") => ~Fits(est[b])

\* C19: every completed remote call has caused one record_request update:
\* total_requests is the number of completed remote-call attempts.
C19_MetricsCountCompletedCalls ==
    metrics.total_requests = SumUpTo(completed, NumDocs)

\* requests and tokens_used have the same length, equal timestamps at equal
\* positions, in non-decreasing order.
ListsAligned ==
    /\ Len(requests) = Len(tokens_used)
    /\ \A k \in 1..Len(requests) : requests[k] = tokens_used[k][1]
    /\ \A k \in 1..(Len(requests) - 1) : requests[k] <= requests[k + 1]

\* C20: the two lists stay aligned; an admitted acquire appends one entry
\* with the same timestamp to each of the pruned lists, an acquire that is
\* refused leaves the pruned lists, and nothing else changes them.
C20_ListsAligned ==
    [][/\ ListsAligned'
       /\ \A i \in Docs :
            /\ recorded'[i] # recorded[i] =>
                /\ requests' = Append(NonExpiredRequests, now)
                /\ tokens_used' = Append(NonExpiredTokens, <<now, est[i]>>)
            /\ (pc'[i] = "rl_sleep" /\ pc[i] # "rl_sleep") =>
                /\ requests' = NonExpiredRequests
                /\ tokens_used' = NonExpiredTokens
       /\ (recorded' = recorded /\ \A i \in Docs : pc'[i] = "rl_sleep" => pc[i] = "rl_sleep")
            => (requests' = requests /\ tokens_used' = tokens_used)
      ]_vars

\* C20 witness: a call is refused on a full window from which earlier
\* entries have been pruned.
C20_Witness ==
    /\ \E i \in Docs : pc[i] = "rl_sleep"
    /\ Len(requests) = MaxRequests
    /\ SumUpTo(recorded, NumDocs) > Len(requests)
    /\ ListsAligned

\* ------------------------------------------------------------ C14 .. C16
\* ceil(a / b) for a >= 0, b > 0
CeilDiv(a, b) == (a + b - 1) \div b

\* C14: for n > 0 samples p95_response_time is the element of the ascending
\* samples at 1-based position ceil(0.95 * n), the index used is within
\* bounds, and for no samples it is 0.
C14_P95IsCeilingRank ==
    LET times == metrics.response_times
        n == Len(times)
    IN  p95.read =>
            /\ n = 0 => p95.value = 0
            /\ n > 0 => /\ P95Index(n) \in 0..(n - 1)
                        /\ p95.value = Sorted(times)[CeilDiv(PercentileNum * n, PercentileDen)]

\* C15: total_requests = successful_requests + failed_requests = the calls
\* made = the samples stored; success_rate is successful / total, 0.8 after
\* 8 successes and 2 failures, and 0 when nothing was recorded.
C15_CountersAgree ==
    /\ metrics.total_requests = metrics.successful_requests + metrics.failed_requests
    /\ metrics.total_requests = calls
    /\ metrics.total_requests = Len(metrics.response_times)
    /\ calls > 0 => SuccessRate(metrics)[1] * calls = metrics.successful_requests * SuccessRate(metrics)[2]
    /\ (metrics.successful_requests = 8 /\ metrics.failed_requests = 2)
            => SuccessRate(metrics)[1] * 10 = 8 * SuccessRate(metrics)[2]
    /\ calls = 0 => SuccessRate(metrics)[1] = 0

\* C15 witness: 8 successes and 2 failures recorded, a failure first.
C15_Witness ==
    /\ metrics.successful_requests = 8
    /\ metrics.failed_requests = 2
    /\ calls = 10
    /\ metrics.errors["TimeoutError"] = 1

\* C16: a get_summary sees every record_request made so far whole: the
\* counters, the token total, the cost total and the samples it read are
\* those of exactly `calls` complete updates, and what it returns is
\* computed from them.
C16_SummarySeesWholeUpdates ==
    summary.read =>
        /\ summary.seen = metrics
        /\ summary.total_requests = calls
        /\ summary.seen.successful_requests + summary.seen.failed_requests = calls
        /\ Len(summary.seen.response_times) = calls
        /\ summary.total_tokens = TokensPerSuccess * summary.seen.successful_requests
        /\ summary.seen.total_cost_usd = summary.total_tokens * CostPer1kTokens
        /\ summary.success_rate * calls <= 10000 * summary.seen.successful_requests + calls
        /\ summary.success_rate * calls >= 10000 * summary.seen.successful_requests - calls

\* C16 witness: a summary read between record_request calls, after both a
\* success and a failure.
C16_Witness ==
    /\ summary.read
    /\ summary.total_requests = 3
    /\ summary.seen.successful_requests = 2
    /\ summary.total_tokens = 2 * TokensPerSuccess
    /\ summary.success_rate = 6667

\* ------------------------------------------------------------ C11 .. C13
\* C11: the cleanup of a content wrapped in a fenced block with a language
\* tag gives the same cleaned text as the cleanup of the content alone.
C11_FencedCleansLikeUnwrapped ==
    cleanText.done => cleanText.wrapped = cleanText.plain

\* The string without its spaces and periods.
WithoutSeparators(s) == SelectSeq(s, LAMBDA c : c \notin {" ", "."})

ElevenDigits(s) == Len(s) = 11 /\ \A k \in 1..Len(s) : IsDigit(s[k])

\* C12: the validator accepts a string iff it is 11 digits once spaces and
\* periods are removed, and then stores that cleaned string ("123 456 789.01"
\* is stored as "12345678901"); a string that cleans to 10 digits is rejected
\* with an error that names the field.
C12_VatAcceptedIffElevenDigits ==
    vatResult.tag # "none" =>
        /\ vatResult.tag = "ok" <=> ElevenDigits(WithoutSeparators(vatInput.text))
        /\ vatResult.tag = "ok" => vatResult.value = WithoutSeparators(vatInput.text)
        /\ vatInput.text = VatExample =>
            /\ vatResult.tag = "ok"
            /\ vatResult.value = <<"1", "2", "3", "4", "5", "6", "7", "8", "9", "0", "1">>
        /\ (Len(WithoutSeparators(vatInput.text)) = 10
                /\ \A k \in 1..10 : IsDigit(WithoutSeparators(vatInput.text)[k]))
            => (vatResult.tag = "ValidationError" /\ vatResult.field = vatInput.field)

\* C12 witness: the sample has been validated as client_vat.
C12_Witness ==
    /\ vatInput = [field |-> "client_vat", text |-> VatExample]
    /\ vatResult.tag = "ok"

\* C13: validating an accepted value again accepts it and returns an equal
\* value.
C13_ValidationIdempotent ==
    vatResult.again.tag # "none" =>
        /\ vatResult.again.tag = "ok"
        /\ vatResult.again.value = vatResult.value

\* C13 witness: a value that validation changed has been validated again.
C13_Witness ==
    /\ vatResult.again.tag = "ok"
    /\ vatResult.value # vatInput.text
    /\ \E k \in 1..Len(vatInput.text) : vatInput.text[k] = "."

\* ------------------------------------------------------------ C21 .. C23
\* C21: a call of acquire whose estimate is above max_tokens is never
\* admitted: it records no entry and never returns (its item never reaches
\* the remote call and never ends), whether or not the window is empty, and
\* the tokens recorded never exceed max_tokens.
C21_OversizeNeverAdmitted ==
    /\ \A i \in Docs :
        est[i] > MaxTokens =>
            /\ recorded[i] = 0
            /\ pc[i] \notin {"remote", "backoff", "done"}
            /\ outcome[i] = NoOutcome
            /\ \A k \in 1..Len(tokens_used) : tokens_used[k][2] # est[i]
    /\ SumTokens(tokens_used) <= MaxTokens

\* C21 witness: an oversize call was refused on an empty window, slept, and
\* is blocked with nothing recorded.
C21_Witness ==
    \E i \in Docs :
        /\ est[i] > MaxTokens
        /\ requests = <<>>
        /\ pc[i] = "lock_wait"
        /\ now >= 1

\* C22: the entries batch_process_documents returns are in the order of
\* their items in the input (the identifiers, which are the input positions,
\* increase along the result), each an item of the input.
C22_ResultInInputOrder ==
    batch = "returned" =>
        /\ \A k \in 1..Len(batchResult) : batchResult[k][1] \in Docs
        /\ \A k \in 1..(Len(batchResult) - 1) : batchResult[k][1] < batchResult[k + 1][1]

\* C22 witness: a batch returned two entries whose items completed in the
\* opposite order.
C22_Witness ==
    /\ batch = "returned"
    /\ \E a, b \in 1..Len(batchResult) :
        /\ a < b
        /\ \E x, y \in 1..Len(doneOrder) :
            /\ x < y
            /\ doneOrder[x] = batchResult[b][1]
            /\ doneOrder[y] = batchResult[a][1]

\* The permits taken from the semaphore; the items inside `async with
\* semaphore`.
HeldPermits == MaxConcurrent - semValue
BeingProcessed ==
    {i \in Docs : pc[i] \in {"sem_woken", "lock_wait", "rl_sleep", "remote", "backoff"}}

\* C23: the permits held are as many as the items being processed, an item
\* that has ended holds none whether it succeeded or failed, and when the
\* batch returns every permit is free and nobody waits for one.
C23_PermitsReleased ==
    /\ HeldPermits = Cardinality(BeingProcessed)
    /\ HeldPermits \in 0..MaxConcurrent
    /\ batch = "returned" => (semValue = MaxConcurrent /\ semWaiters = <<>>)

\* C23 witness: the first item to end failed, a later item went through the
\* semaphore after it, and the batch returned.
C23_Witness ==
    /\ batch = "returned"
    /\ outcome[doneOrder[1]].tag = "raise"
    /\ \E i \in Docs : i > MaxConcurrent /\ outcome[i].tag # "raise"
    /\ semValue = MaxConcurrent

====
